---- MODULE Spec2Model ----
(***************************************************************************)
(* FlightPath Server provider for Airflow: the connection-backed API      *)
(* client (FlightPathServerHook) and its three task wrappers (operators). *)
(*                                                                         *)
(* A call is modelled in two steps, split where the code blocks in        *)
(* requests.post: the first step runs the handler up to the request being *)
(* handed to the HTTP library, the second step receives what the HTTP     *)
(* library produced (a network error, a status, a body) and runs the rest *)
(* of the handler to its return or raise.                                  *)
(***************************************************************************)
EXTENDS Naturals, Sequences, FiniteSets, TLC

VARIABLES
    conn,       \* the connection profile held by the configuration store
    hook,       \* the most recently constructed FlightPathServerHook
    constructed,\* the fields of that instance as __init__ left them
    pc,         \* "idle" or "awaiting" (blocked inside requests.post)
    caller,     \* who started the call in progress / the last call
    kwargs,     \* the keyword arguments that call was started with
    fields,     \* the fields of the operator instance whose execute runs
    hookCalls,  \* hook methods invoked during the current / last call
    sent,       \* HTTP requests handed to requests.post during that call
    outcome,    \* what the HTTP library produced for the last request
    result,     \* how the last call ended: return value or raised error
    fs,         \* local filesystem: path -> content
    opened,     \* paths opened for writing during the current / last call
    ncalls      \* number of calls started so far

vars == <<conn, hook, constructed, pc, caller, kwargs, fields, hookCalls, sent, outcome, result, fs, opened, ncalls>>

\* Bound on the number of calls in one behaviour.
MaxCalls == 3

(***************************************************************************)
(* Python values.  Every value is a record of the same shape: t is the    *)
(* Python type, s the text of a str (or the digits of an int), items the  *)
(* (key, value) pairs of a dict in insertion order.                       *)
(***************************************************************************)
PyNone == [t |-> "None", s |-> "", items |-> <<>>]
PyStr(x) == [t |-> "str", s |-> x, items |-> <<>>]
PyInt(x) == [t |-> "int", s |-> x, items |-> <<>>]
PyList == [t |-> "list", s |-> "", items |-> <<>>]
PyDict(kv) == [t |-> "dict", s |-> "", items |-> kv]
\* A keyword argument the caller does not pass.
Unset == [t |-> "unset", s |-> "", items |-> <<>>]

\* Python truthiness, as tested by `if x:` and `if not x:`.
Truthy(v) ==
    CASE v.t = "None" -> FALSE
      [] v.t = "str" -> v.s # ""
      [] v.t = "int" -> v.s # "0"
      [] v.t = "dict" -> v.items # <<>>
      [] v.t = "list" -> v.items # <<>>
      [] OTHER -> TRUE

\* Binding of a keyword parameter that has a default value.
Default(v, d) == IF v = Unset THEN d ELSE v

Keys(kv) == {kv[i][1] : i \in DOMAIN kv}
ItemSet(kv) == {kv[i] : i \in DOMAIN kv}
HasKey(kv, k) == k \in Keys(kv)
Lookup(kv, k) == kv[CHOOSE i \in DOMAIN kv : kv[i][1] = k][2]

\* dict.get(k): the value, or None when the key is absent.
DictGet(d, k) == IF HasKey(d.items, k) THEN Lookup(d.items, k) ELSE PyNone

(***************************************************************************)
(* Exceptions.  An exception is its class and its message; a message is   *)
(* the sequence of the parts its f-string concatenates.                   *)
(***************************************************************************)
Exc(type, msg) == [type |-> type, msg |-> msg]
NoExc == Exc("", <<>>)

\* The classes an exception class is an instance of (isinstance / except).
Bases(type) ==
    CASE type = "ConnectionError" -> {"ConnectionError", "RequestException"}
      [] type = "HTTPError" -> {"HTTPError", "RequestException"}
      [] type = "requests.JSONDecodeError" ->
            {"requests.JSONDecodeError", "RequestException", "json.JSONDecodeError", "ValueError"}
      [] type = "json.JSONDecodeError" -> {"json.JSONDecodeError", "ValueError"}
      [] type = "simplejson.JSONDecodeError" -> {"simplejson.JSONDecodeError", "ValueError"}
      [] OTHER -> {type}

IsInstance(e, cls) == cls \in Bases(e.type)

Returned(v) == [kind |-> "return", value |-> v, exc |-> NoExc]
Raised(e) == [kind |-> "raise", value |-> PyNone, exc |-> e]
NoResult == [kind |-> "none", value |-> PyNone, exc |-> NoExc]

(***************************************************************************)
(* json.dumps of a dict of scalars: the members in insertion order, each  *)
(* value as its JSON text (a str quoted, None as null).                   *)
(***************************************************************************)
JsonText(v) ==
    CASE v.t = "str" -> "\"" \o v.s \o "\""
      [] v.t = "None" -> "null"
      [] OTHER -> v.s

Dumps(d) == [i \in DOMAIN d.items |-> <<d.items[i][1], JsonText(d.items[i][2])>>]

(***************************************************************************)
(* FlightPathServerHook.__init__                                           *)
(***************************************************************************)
NoHook == [alive |-> FALSE, base_url |-> PyNone, api_key |-> PyNone, headers |-> <<>>]

Headers(api_key) ==
    << <<"access_token", api_key>>,
       <<"Content-Type", PyStr("application/json")>>,
       <<"Accept", PyStr("application/json")>> >>

\* Mutant: the API key is not checked.
HookInit_NoKeyCheck(c) ==
    IF ~Truthy(c.host)
    THEN [ok |-> FALSE, hook |-> NoHook,
          exc |-> Exc("AirflowException", <<"FlightPath Server base URL not found in connection.">>)]
    ELSE [ok |-> TRUE,
          hook |-> [alive |-> TRUE, base_url |-> c.host, api_key |-> c.password,
                    headers |-> Headers(c.password)],
          exc |-> NoExc]

\* The constructor's outcome: the instance, or the configuration error.
HookInit(c) ==
    IF ~Truthy(c.host)
    THEN [ok |-> FALSE, hook |-> NoHook,
          exc |-> Exc("AirflowException", <<"FlightPath Server base URL not found in connection.">>)]
    ELSE IF ~Truthy(c.password)
    THEN [ok |-> FALSE, hook |-> NoHook,
          exc |-> Exc("AirflowException", <<"FlightPath Server API key not found in connection (password field).">>)]
    ELSE [ok |-> TRUE,
          hook |-> [alive |-> TRUE, base_url |-> c.host, api_key |-> c.password,
                    headers |-> Headers(c.password)],
          exc |-> NoExc]

(***************************************************************************)
(* FlightPathServerHook._call_api, first half: up to requests.post.       *)
(***************************************************************************)
CallApiRequest(h, endpoint, method, data) ==
    [verb |-> method, url |-> h.base_url.s \o endpoint, headers |-> h.headers, body |-> Dumps(data)]

\* Requests handed to the HTTP library by _call_api's try block.
CallApiSend(h, endpoint, method, data) ==
    IF method = "POST" THEN <<CallApiRequest(h, endpoint, method, data)>> ELSE <<>>

\* Mutant: the URL is built in place, self.base_url keeps the endpoint.
HookAfterSend_KeepsUrl(h, endpoint) == [h EXCEPT !.base_url = PyStr(h.base_url.s \o endpoint)]

\* The instance after _call_api built and sent its request: url is a local,
\* self.base_url, self.api_key and self.headers are read and never assigned.
HookAfterSend(h, endpoint) == h

(***************************************************************************)
(* What the HTTP library can produce for one request.                     *)
(*   network : requests.post raises (no response)                         *)
(*   status  : a response whose raise_for_status raises HTTPError         *)
(*   badjson : a 2xx response whose json() raises; jsonExc is the class   *)
(*             the installed HTTP library raises for an undecodable body  *)
(*   json    : a 2xx response whose json() returns value                  *)
(***************************************************************************)
Outcome(kind, reason, text, jsonExc, value) ==
    [kind |-> kind, reason |-> reason, text |-> text, jsonExc |-> jsonExc, value |-> value]
NoOutcome == Outcome("none", "", "", "", PyNone)

JsonExcClasses == {"requests.JSONDecodeError", "json.JSONDecodeError", "simplejson.JSONDecodeError"}

\* Mutant: raise_for_status is not called, the body of an error response is used.
TryBody_NoRaiseForStatus(o) ==
    CASE o.kind = "network" -> Raised(Exc("ConnectionError", <<o.reason>>))
      [] o.kind = "badjson" -> Raised(Exc(o.jsonExc, <<o.reason>>))
      [] OTHER -> Returned(o.value)

\* What the try block of _call_api does with the HTTP library's product:
\* requests.post / raise_for_status / response.json() raise, or json() returns.
TryBody(o) ==
    CASE o.kind = "network" -> Raised(Exc("ConnectionError", <<o.reason>>))
      [] o.kind = "status" -> Raised(Exc("HTTPError", <<o.reason>>))
      [] o.kind = "badjson" -> Raised(Exc(o.jsonExc, <<o.reason>>))
      [] OTHER -> Returned(o.value)

\* str(e) of an exception raised by the HTTP library.
StrOf(e) == e.msg[1]

\* The except clauses of _call_api, in source order; an exception neither
\* clause matches propagates as it is.
ExceptClauses(e, text) ==
    IF IsInstance(e, "RequestException")
    THEN Raised(Exc("AirflowException", <<"FlightPath Server API call failed: ", StrOf(e)>>))
    ELSE IF IsInstance(e, "json.JSONDecodeError")
    THEN Raised(Exc("AirflowException",
                    <<"Failed to decode JSON response from FlightPath Server: ", StrOf(e),
                      ", Response: ", text>>))
    ELSE Raised(e)

\* FlightPathServerHook._call_api, second half: from requests.post on.
CallApiFinish(o) ==
    LET r == TryBody(o)
    IN  IF r.kind = "raise" THEN ExceptClauses(r.exc, o.text) ELSE r

\* Mutant: a failed request is sent once more.
SentAfter_Retry(o, s) == IF o.kind \in {"network", "status"} THEN s \o s ELSE s

\* Requests sent by _call_api after the try block was left through an except
\* clause or a return: the code re-raises or returns, it sends nothing more.
SentAfter(o, s) == s

(***************************************************************************)
(* The four convenience methods: the payload each builds and its path.    *)
(***************************************************************************)
\* Mutant: template is put into the payload whatever its value.
register_file_data_AlwaysTemplate(project_name, name, file_location, template) ==
    PyDict(<< <<"project_name", project_name>>, <<"name", name>>,
              <<"file_location", file_location>>, <<"template", template>> >>)

register_file_data(project_name, name, file_location, template) ==
    LET data == << <<"project_name", project_name>>, <<"name", name>>,
                   <<"file_location", file_location>> >>
    IN  PyDict(IF Truthy(template) THEN Append(data, <<"template", template>>) ELSE data)

register_and_run_data(project_name, file_location, file_name, csvpaths_group_name, method, file_template, run_template) ==
    LET data == << <<"project_name", project_name>>, <<"file_location", file_location>>,
                   <<"file_name", file_name>>, <<"csvpaths_group_name", csvpaths_group_name>>,
                   <<"method", method>> >>
        d1 == IF Truthy(file_template) THEN Append(data, <<"file_template", file_template>>) ELSE data
        d2 == IF Truthy(run_template) THEN Append(d1, <<"run_template", run_template>>) ELSE d1
    IN  PyDict(d2)

find_files_data(project_name, reference) ==
    PyDict(<< <<"project_name", project_name>>, <<"reference", reference>> >>)

get_file_data(project_name, reference) ==
    PyDict(<< <<"project_name", project_name>>, <<"reference", reference>> >>)

\* Mutant: the two /find paths exchanged.
Endpoint_Swapped(m) ==
    CASE m = "register_file" -> "/csvpath/register_file"
      [] m = "register_and_run" -> "/csvpath/register_and_run"
      [] m = "find_files" -> "/find/get_file"
      [] m = "get_file" -> "/find/find_files"

Endpoint(m) ==
    CASE m = "register_file" -> "/csvpath/register_file"
      [] m = "register_and_run" -> "/csvpath/register_and_run"
      [] m = "find_files" -> "/find/find_files"
      [] m = "get_file" -> "/find/get_file"

\* The parameters of a hook method after binding (defaults applied).
BindArgs(m, kw) ==
    CASE m = "register_file" ->
            << <<"project_name", Lookup(kw, "project_name")>>, <<"name", Lookup(kw, "name")>>,
               <<"file_location", Lookup(kw, "file_location")>>,
               <<"template", Default(Lookup(kw, "template"), PyNone)>> >>
      [] m = "register_and_run" ->
            << <<"project_name", Lookup(kw, "project_name")>>,
               <<"file_location", Lookup(kw, "file_location")>>,
               <<"file_name", Lookup(kw, "file_name")>>,
               <<"csvpaths_group_name", Lookup(kw, "csvpaths_group_name")>>,
               <<"method", Default(Lookup(kw, "method"), PyStr("collect_paths"))>>,
               <<"file_template", Default(Lookup(kw, "file_template"), PyNone)>>,
               <<"run_template", Default(Lookup(kw, "run_template"), PyNone)>> >>
      [] OTHER -> kw

\* The payload a hook method builds from its bound parameters.
MethodData(m, a) ==
    CASE m = "register_file" ->
            register_file_data(Lookup(a, "project_name"), Lookup(a, "name"),
                               Lookup(a, "file_location"), Lookup(a, "template"))
      [] m = "register_and_run" ->
            register_and_run_data(Lookup(a, "project_name"), Lookup(a, "file_location"),
                                  Lookup(a, "file_name"), Lookup(a, "csvpaths_group_name"),
                                  Lookup(a, "method"), Lookup(a, "file_template"),
                                  Lookup(a, "run_template"))
      [] m = "find_files" -> find_files_data(Lookup(a, "project_name"), Lookup(a, "reference"))
      [] m = "get_file" -> get_file_data(Lookup(a, "project_name"), Lookup(a, "reference"))

HookCall(m, a) == [method |-> m, args |-> a]

(***************************************************************************)
(* base64.b64decode(s) for a str s, as binascii.a2b_base64 computes it    *)
(* without validation: characters outside the alphabet are skipped, each  *)
(* group of four sextets gives three bytes, decoding stops at a completed *)
(* padding, and a group left open at the end is an error.                 *)
(***************************************************************************)
B64Alphabet ==
    << "A","B","C","D","E","F","G","H","I","J","K","L","M","N","O","P",
       "Q","R","S","T","U","V","W","X","Y","Z","a","b","c","d","e","f",
       "g","h","i","j","k","l","m","n","o","p","q","r","s","t","u","v",
       "w","x","y","z","0","1","2","3","4","5","6","7","8","9","+","/" >>

InAlphabet(c) == \E i \in DOMAIN B64Alphabet : B64Alphabet[i] = c
B64Value(c) == (CHOOSE i \in DOMAIN B64Alphabet : B64Alphabet[i] = c) - 1

\* The characters of the str values that occur as file content.
Chars(s) ==
    CASE s = "QQ==" -> <<"Q","Q","=","=">>
      [] s = "QUI=" -> <<"Q","U","I","=">>
      [] s = "QUJD" -> <<"Q","U","J","D">>
      [] s = "Q!Q==" -> <<"Q","!","Q","=","=">>
      [] s = "====" -> <<"=","=","=","=">>
      [] s = "QQ" -> <<"Q","Q">>
      [] s = "QQ=" -> <<"Q","Q","=">>
      [] OTHER -> <<>>

DecodeOk(bytes) == [ok |-> TRUE, bytes |-> bytes]
DecodeError == [ok |-> FALSE, bytes |-> <<>>]

RECURSIVE B64Scan(_, _, _, _, _, _)
B64Scan(cs, i, quad, left, pads, out) ==
    IF i > Len(cs)
    THEN IF quad # 0 THEN DecodeError ELSE DecodeOk(out)
    ELSE IF cs[i] = "="
    THEN IF quad >= 2 /\ quad + pads + 1 >= 4
         THEN DecodeOk(out)
         ELSE B64Scan(cs, i + 1, quad, left, IF quad >= 2 THEN pads + 1 ELSE pads, out)
    ELSE IF ~InAlphabet(cs[i])
    THEN B64Scan(cs, i + 1, quad, left, pads, out)
    ELSE LET v == B64Value(cs[i])
         IN  CASE quad = 0 -> B64Scan(cs, i + 1, 1, v, 0, out)
               [] quad = 1 -> B64Scan(cs, i + 1, 2, v % 16, 0, Append(out, left * 4 + v \div 16))
               [] quad = 2 -> B64Scan(cs, i + 1, 3, v % 4, 0, Append(out, left * 16 + v \div 4))
               [] OTHER -> B64Scan(cs, i + 1, 0, 0, 0, Append(out, left * 64 + v))

b64decode(s) == B64Scan(Chars(s), 1, 0, 0, 0, <<>>)

(***************************************************************************)
(* The operators (task wrappers).                                          *)
(***************************************************************************)
\* Names bound in the operators module: its imports and its classes.
OperatorModuleNames ==
    {"annotations", "base64", "Any", "BaseOperator", "FlightPathServerHook",
     "FlightPathServerRegisterFileOperator", "FlightPathServerRegisterAndRunOperator",
     "FlightPathServerPullDataOperator"}

\* `raise cls(msg)` evaluated in the operators module: the name is looked up
\* first, and a name the module does not bind is a NameError.
OperatorRaise(cls, msg) ==
    IF cls \in OperatorModuleNames
    THEN Exc(cls, <<msg>>)
    ELSE Exc("NameError", <<"name '", cls, "' is not defined">>)

\* Operator.__init__: the fields stored on the instance, defaults applied.
OperatorInit(op, kw) ==
    CASE op = "RegisterFileOperator" ->
            << <<"project_name", Lookup(kw, "project_name")>>, <<"name", Lookup(kw, "name")>>,
               <<"file_location", Lookup(kw, "file_location")>>,
               <<"template", Default(Lookup(kw, "template"), PyNone)>> >>
      [] op = "RegisterAndRunOperator" ->
            << <<"project_name", Lookup(kw, "project_name")>>,
               <<"file_location", Lookup(kw, "file_location")>>,
               <<"file_name", Lookup(kw, "file_name")>>,
               <<"csvpaths_group_name", Lookup(kw, "csvpaths_group_name")>>,
               <<"method", Default(Lookup(kw, "method"), PyStr("collect_paths"))>>,
               <<"file_template", Default(Lookup(kw, "file_template"), PyNone)>>,
               <<"run_template", Default(Lookup(kw, "run_template"), PyNone)>> >>
      [] OTHER ->
            << <<"project_name", Lookup(kw, "project_name")>>,
               <<"reference", Lookup(kw, "reference")>>,
               <<"output_path", Lookup(kw, "output_path")>> >>

\* The hook method an operator's execute calls.
OperatorMethod(op) ==
    CASE op = "RegisterFileOperator" -> "register_file"
      [] op = "RegisterAndRunOperator" -> "register_and_run"
      [] OTHER -> "get_file"

\* Mutant: name and file_location exchanged, file_template passed as run_template.
ForwardKwargs_Mixed(op, f) ==
    CASE op = "RegisterFileOperator" ->
            << <<"project_name", Lookup(f, "project_name")>>, <<"name", Lookup(f, "file_location")>>,
               <<"file_location", Lookup(f, "name")>>,
               <<"template", Lookup(f, "template")>> >>
      [] op = "RegisterAndRunOperator" ->
            << <<"project_name", Lookup(f, "project_name")>>,
               <<"file_location", Lookup(f, "file_location")>>,
               <<"file_name", Lookup(f, "file_name")>>,
               <<"csvpaths_group_name", Lookup(f, "csvpaths_group_name")>>,
               <<"method", Lookup(f, "method")>>,
               <<"file_template", Lookup(f, "file_template")>>,
               <<"run_template", Lookup(f, "file_template")>> >>
      [] OTHER ->
            << <<"project_name", Lookup(f, "project_name")>>,
               <<"reference", Lookup(f, "reference")>> >>

\* The keyword arguments execute passes to the hook method.
ForwardKwargs(op, f) ==
    CASE op = "RegisterFileOperator" ->
            << <<"project_name", Lookup(f, "project_name")>>, <<"name", Lookup(f, "name")>>,
               <<"file_location", Lookup(f, "file_location")>>,
               <<"template", Lookup(f, "template")>> >>
      [] op = "RegisterAndRunOperator" ->
            << <<"project_name", Lookup(f, "project_name")>>,
               <<"file_location", Lookup(f, "file_location")>>,
               <<"file_name", Lookup(f, "file_name")>>,
               <<"csvpaths_group_name", Lookup(f, "csvpaths_group_name")>>,
               <<"method", Lookup(f, "method")>>,
               <<"file_template", Lookup(f, "file_template")>>,
               <<"run_template", Lookup(f, "run_template")>> >>
      [] OTHER ->
            << <<"project_name", Lookup(f, "project_name")>>,
               <<"reference", Lookup(f, "reference")>> >>

\* response.get(...) on what the hook returned: only a dict has get.
GetAttrError(v) == Exc("AttributeError", <<"'", v.t, "' object has no attribute 'get'">>)

Absent == [exists |-> FALSE, bytes |-> <<>>]
File(bytes) == [exists |-> TRUE, bytes |-> bytes]

Finish(r, f, o) == [result |-> r, fs |-> f, opened |-> o]

\* Mutant: the file is opened for appending.
WriteFile_Append(f, path, bytes) == [f EXCEPT ![path] = File(f[path].bytes \o bytes)]

\* open(path, "wb") followed by f.write(bytes): the file holds exactly bytes.
WriteFile(f, path, bytes) == [f EXCEPT ![path] = File(bytes)]

\* RegisterFileOperator.execute and RegisterAndRunOperator.execute after the
\* hook method came back with r: log the references, return the response.
RegisterFinish(r, f) ==
    IF r.kind = "raise" THEN Finish(r, f, <<>>)
    ELSE IF r.value.t # "dict" THEN Finish(Raised(GetAttrError(r.value)), f, <<>>)
    ELSE Finish(Returned(r.value), f, <<>>)

\* Mutant: the output file is opened for writing before the content is looked at.
NoFileContent_OpenFirst(f, path) ==
    Finish(Raised(OperatorRaise("AirflowException",
                                "No file content received from FlightPath Server.")),
           [f EXCEPT ![path] = File(<<>>)], <<path>>)

\* PullDataOperator.execute when the response carries no file content: raise,
\* with the filesystem as it was.
NoFileContent(f, path) ==
    Finish(Raised(OperatorRaise("AirflowException",
                                "No file content received from FlightPath Server.")),
           f, <<>>)

\* Mutant: only None counts as no content (`is None` in place of `not`).
NoContent_IsNone(v) == v = PyNone

\* `if not file_content_base64:`
NoContent(v) == ~Truthy(v)

\* Mutant: the output file is opened before the content is decoded.
PullDataFinish_OpenBeforeDecode(flds, r, f) ==
    IF r.kind = "raise" THEN Finish(r, f, <<>>)
    ELSE IF r.value.t # "dict" THEN Finish(Raised(GetAttrError(r.value)), f, <<>>)
    ELSE LET file_content_base64 == DictGet(r.value, "file")
             output_path == Lookup(flds, "output_path")
         IN  IF NoContent(file_content_base64)
             THEN NoFileContent(f, output_path.s)
             ELSE IF file_content_base64.t # "str"
             THEN Finish(Raised(Exc("TypeError", <<"argument should be a bytes-like object or ASCII string, not '",
                                                   file_content_base64.t, "'">>)),
                         [f EXCEPT ![output_path.s] = File(<<>>)], <<output_path.s>>)
             ELSE LET file_content == b64decode(file_content_base64.s)
                  IN  IF ~file_content.ok
                      THEN Finish(Raised(Exc("binascii.Error", <<"Incorrect padding">>)),
                                  [f EXCEPT ![output_path.s] = File(<<>>)], <<output_path.s>>)
                      ELSE Finish(Returned(output_path),
                                  WriteFile(f, output_path.s, file_content.bytes),
                                  <<output_path.s>>)

\* PullDataOperator.execute after get_file came back with r.
PullDataFinish(flds, r, f) ==
    IF r.kind = "raise" THEN Finish(r, f, <<>>)
    ELSE IF r.value.t # "dict" THEN Finish(Raised(GetAttrError(r.value)), f, <<>>)
    ELSE LET file_content_base64 == DictGet(r.value, "file")
             output_path == Lookup(flds, "output_path")
         IN  IF NoContent(file_content_base64)
             THEN NoFileContent(f, output_path.s)
             ELSE IF file_content_base64.t # "str"
             THEN Finish(Raised(Exc("TypeError", <<"argument should be a bytes-like object or ASCII string, not '",
                                                   file_content_base64.t, "'">>)), f, <<>>)
             ELSE LET file_content == b64decode(file_content_base64.s)
                  IN  IF ~file_content.ok
                      THEN Finish(Raised(Exc("binascii.Error", <<"Incorrect padding">>)), f, <<>>)
                      ELSE Finish(Returned(output_path),
                                  WriteFile(f, output_path.s, file_content.bytes),
                                  <<output_path.s>>)

ExecuteFinish(op, flds, r, f) ==
    IF op = "PullDataOperator" THEN PullDataFinish(flds, r, f) ELSE RegisterFinish(r, f)

(***************************************************************************)
(* Inputs: connection profiles, call arguments, HTTP outcomes.            *)
(***************************************************************************)
Hosts == {PyNone, PyStr(""), PyStr("http://localhost:8000")}
Passwords == {PyNone, PyStr(""), PyStr("test_api_key")}

Projects == {PyStr("test_project"), PyStr("")}
OptionalValues == {Unset, PyNone, PyStr(""), PyStr("tpl")}
RunTemplates == {Unset, PyStr("run_tpl")}
Methods == {Unset, PyStr("collect_paths"), PyStr("fast_forward_paths")}
OutputPath == "/tmp/test_output.txt"
OtherPath == "/tmp/other.txt"
Paths == {OutputPath, OtherPath}

RegisterFileKwargs ==
    { << <<"project_name", p>>, <<"name", PyStr("test_file.csv")>>,
         <<"file_location", PyStr("/data/test_file.csv")>>, <<"template", t>> >>
      : p \in Projects, t \in OptionalValues }

RegisterAndRunKwargs ==
    { << <<"project_name", PyStr("test_project")>>, <<"file_location", PyStr("/data/new_file.jsonl")>>,
         <<"file_name", PyStr("new_file.jsonl")>>, <<"csvpaths_group_name", PyStr("my_pipeline")>>,
         <<"method", x[1]>>, <<"file_template", x[2]>>, <<"run_template", x[3]>> >>
      : x \in Methods \X OptionalValues \X RunTemplates }

ReferenceKwargs ==
    { << <<"project_name", p>>, <<"reference", PyStr("file_ref_xyz")>> >> : p \in Projects }

PullDataKwargs ==
    { << <<"project_name", p>>, <<"reference", PyStr("file_ref_xyz")>>,
         <<"output_path", PyStr(OutputPath)>> >> : p \in Projects }

\* str file contents the server may return: well-formed base64 of one, two
\* and three bytes, base64 with a skipped character, padding only, the empty
\* string, and two strings whose last group is left open.
FileStrings == {"", "QQ==", "QUI=", "QUJD", "Q!Q==", "====", "QQ", "QQ="}

ResponseValues ==
    { PyDict(<< <<"reference", PyStr("test_ref_123")>> >>),
      PyDict(<< <<"register_reference", PyStr("reg_ref_789")>>,
                <<"run_reference", PyStr("run_ref_456")>> >>),
      PyDict(<< <<"paths", PyList>> >>),
      PyDict(<<>>),
      PyDict(<< <<"file", PyNone>> >>),
      PyDict(<< <<"file", PyInt("7")>> >>),
      PyList }
    \cup { PyDict(<< <<"file", PyStr(b)>> >>) : b \in FileStrings }

Outcomes ==
    { Outcome("network", "Connection refused", "", "", PyNone),
      Outcome("status", "400 Client Error: Bad Request", "Bad Request", "", PyNone),
      Outcome("status", "500 Server Error: Internal Server Error", "", "", PyNone) }
    \cup { Outcome("badjson", "Expecting value: line 1 column 1 (char 0)",
                   "Invalid JSON response", c, PyNone) : c \in JsonExcClasses }
    \cup { Outcome("json", "", "", "", v) : v \in ResponseValues }

(***************************************************************************)
(* The state machine.                                                      *)
(***************************************************************************)
Init ==
    /\ conn \in [host : Hosts, password : Passwords]
    /\ hook = NoHook
    /\ constructed = NoHook
    /\ pc = "idle"
    /\ caller = "none"
    /\ kwargs = <<>>
    /\ fields = <<>>
    /\ hookCalls = <<>>
    /\ sent = <<>>
    /\ outcome = NoOutcome
    /\ result = NoResult
    /\ fs \in { [p \in Paths |-> IF p = OutputPath THEN c ELSE File(<<9>>)]
                : c \in {Absent, File(<<1, 2>>)} }
    /\ opened = <<>>
    /\ ncalls = 0

\* hook = FlightPathServerHook(conn_id), written by the user of the client.
Construct ==
    /\ pc = "idle"
    /\ LET c == HookInit(conn)
       IN  /\ hook' = IF c.ok THEN c.hook ELSE hook
           /\ constructed' = IF c.ok THEN c.hook ELSE constructed
           /\ result' = IF c.ok THEN Returned(PyNone) ELSE Raised(c.exc)
    /\ caller' = "construct"
    /\ kwargs' = <<>>
    /\ fields' = <<>>
    /\ hookCalls' = <<>>
    /\ sent' = <<>>
    /\ outcome' = NoOutcome
    /\ opened' = <<>>
    /\ UNCHANGED <<conn, pc, fs, ncalls>>

\* Hook method m called on client h with keyword arguments kw, up to the point
\* where _call_api blocks in requests.post: bind the parameters, build the
\* payload, hand the request to the HTTP library.
StartCall(h, m, kw) ==
    \E a \in {BindArgs(m, kw)} :
      \E data \in {MethodData(m, a)} :
        /\ hookCalls' = <<HookCall(m, kw)>>
        /\ sent' = CallApiSend(h, Endpoint(m), "POST", data)
        /\ result' = NoResult
        /\ pc' = "awaiting"

\* A convenience method m called with kw on the constructed client.
StartMethod(m, kw) ==
    /\ pc = "idle"
    /\ hook.alive
    /\ ncalls < MaxCalls
    /\ ncalls' = ncalls + 1
    /\ caller' = "hook"
    /\ kwargs' = kw
    /\ fields' = <<>>
    /\ StartCall(hook, m, kw)
    /\ hook' = HookAfterSend(hook, Endpoint(m))
    /\ outcome' = NoOutcome
    /\ opened' = <<>>
    /\ UNCHANGED <<conn, constructed, fs>>

CallRegisterFile == \E kw \in RegisterFileKwargs : StartMethod("register_file", kw)
CallRegisterAndRun == \E kw \in RegisterAndRunKwargs : StartMethod("register_and_run", kw)
CallFindFiles == \E kw \in ReferenceKwargs : StartMethod("find_files", kw)
CallGetFile == \E kw \in ReferenceKwargs : StartMethod("get_file", kw)

\* Operator(**kw).execute(context), up to the point where the hook method
\* blocks in requests.post; the constructor of the hook may raise first.
StartExecute(op, kw) ==
    /\ pc = "idle"
    /\ ncalls < MaxCalls
    /\ ncalls' = ncalls + 1
    /\ caller' = op
    /\ kwargs' = kw
    /\ outcome' = NoOutcome
    /\ opened' = <<>>
    /\ \E f \in {OperatorInit(op, kw)}, c \in {HookInit(conn)} :
         /\ fields' = f
         /\ IF c.ok
            THEN /\ hook' = HookAfterSend(c.hook, Endpoint(OperatorMethod(op)))
                 /\ constructed' = c.hook
                 /\ \E args \in {ForwardKwargs(op, f)} : StartCall(c.hook, OperatorMethod(op), args)
            ELSE /\ hook' = hook
                 /\ constructed' = constructed
                 /\ hookCalls' = <<>>
                 /\ sent' = <<>>
                 /\ result' = Raised(c.exc)
                 /\ pc' = "idle"
    /\ UNCHANGED <<conn, fs>>

ExecuteRegisterFile == \E kw \in RegisterFileKwargs : StartExecute("RegisterFileOperator", kw)
ExecuteRegisterAndRun == \E kw \in RegisterAndRunKwargs : StartExecute("RegisterAndRunOperator", kw)
ExecutePullData == \E kw \in PullDataKwargs : StartExecute("PullDataOperator", kw)

\* requests.post comes back (or raises) and the call runs to its end.
Respond ==
    /\ pc = "awaiting"
    /\ \E o \in Outcomes :
         \E r \in {CallApiFinish(o)} :
           /\ outcome' = o
           /\ sent' = SentAfter(o, sent)
           /\ IF caller = "hook"
              THEN /\ result' = r
                   /\ UNCHANGED <<fs, opened>>
              ELSE \E fin \in {ExecuteFinish(caller, fields, r, fs)} :
                     /\ result' = fin.result
                     /\ fs' = fin.fs
                     /\ opened' = fin.opened
    /\ pc' = "idle"
    /\ UNCHANGED <<conn, hook, constructed, caller, kwargs, fields, hookCalls, ncalls>>

Next ==
    \/ Construct
    \/ CallRegisterFile
    \/ CallRegisterAndRun
    \/ CallFindFiles
    \/ CallGetFile
    \/ ExecuteRegisterFile
    \/ ExecuteRegisterAndRun
    \/ ExecutePullData
    \/ Respond

Spec == Init /\ [][Next]_vars

(***************************************************************************)
(* Properties.                                                             *)
(***************************************************************************)
Done == pc = "idle" /\ caller \notin {"none", "construct"}
MethodCalled == Len(hookCalls) = 1
Failure == {"network", "status", "badjson"}

\* The JSON text of a str.
Quoted(x) == "\"" \o x \o "\""

\* The fixed path and the required fields of each convenience method.
ExpectedPath(m) ==
    CASE m = "register_file" -> "/csvpath/register_file"
      [] m = "register_and_run" -> "/csvpath/register_and_run"
      [] m = "find_files" -> "/find/find_files"
      [] m = "get_file" -> "/find/get_file"

RequiredFields(m) ==
    CASE m = "register_file" -> {"project_name", "name", "file_location"}
      [] m = "register_and_run" ->
            {"project_name", "file_location", "file_name", "csvpaths_group_name", "method"}
      [] OTHER -> {"project_name", "reference"}

OptionalFields(m) ==
    CASE m = "register_file" -> {"template"}
      [] m = "register_and_run" -> {"file_template", "run_template"}
      [] OTHER -> {}

\* The value a caller's keyword argument stands for: an argument left out is
\* "collect_paths" for method and None for the optional fields.
ArgValue(kw, k) ==
    IF Lookup(kw, k) # Unset THEN Lookup(kw, k)
    ELSE IF k = "method" THEN PyStr("collect_paths") ELSE PyNone

\* C1: every call of a convenience method on a client built from a profile
\* with base URL and API key hands exactly one request to the HTTP library: a
\* POST to base URL + the method's fixed path, with exactly the three headers
\* (access_token = API key, Content-Type and Accept = application/json) and a
\* body that holds every required field of the method with the argument's
\* value (method defaulting to "collect_paths") and no field other than the
\* method's required and optional ones; when the response is a success, the
\* method returns the parsed JSON value unchanged.
C1_OnePostPerCall ==
    MethodCalled =>
        LET m == hookCalls[1].method
            a == hookCalls[1].args
        IN  /\ Len(sent) = 1
            /\ sent[1].verb = "POST"
            /\ sent[1].url = conn.host.s \o ExpectedPath(m)
            /\ Len(sent[1].headers) = 3
            /\ ItemSet(sent[1].headers) =
                  { <<"access_token", conn.password>>,
                    <<"Content-Type", PyStr("application/json")>>,
                    <<"Accept", PyStr("application/json")>> }
            /\ Len(sent[1].body) = Cardinality(Keys(sent[1].body))
            /\ RequiredFields(m) \subseteq Keys(sent[1].body)
            /\ Keys(sent[1].body) \subseteq RequiredFields(m) \cup OptionalFields(m)
            /\ \A k \in RequiredFields(m) :
                  <<k, Quoted(ArgValue(a, k).s)>> \in ItemSet(sent[1].body)
            /\ (pc = "idle" /\ caller = "hook" /\ outcome.kind = "json")
                  => result = Returned(outcome.value)

C1_Witness ==
    /\ Done /\ caller = "hook"
    /\ hookCalls[1].method = "register_and_run"
    /\ Lookup(hookCalls[1].args, "method") = Unset
    /\ <<"method", "\"collect_paths\"">> \in ItemSet(sent[1].body)
    /\ sent[1].url = "http://localhost:8000/csvpath/register_and_run"
    /\ result.kind = "return"

\* C2 as stated: an optional field passed as None (or left out) is no key of
\* the payload and no field is sent as null; an optional field the caller does
\* supply is sent with the supplied value.
C2_AsStated ==
    (MethodCalled /\ hookCalls[1].method \in {"register_file", "register_and_run"}) =>
        LET m == hookCalls[1].method
            a == hookCalls[1].args
        IN  /\ \A i \in DOMAIN sent[1].body : sent[1].body[i][2] # "null"
            /\ \A k \in OptionalFields(m) :
                  IF ArgValue(a, k) = PyNone
                  THEN k \notin Keys(sent[1].body)
                  ELSE <<k, Quoted(ArgValue(a, k).s)>> \in ItemSet(sent[1].body)

\* C2 (amended): an optional field passed as None, left out, or passed as the
\* empty string is no key of the payload; no field is sent as null; an
\* optional field supplied as a non-empty string is sent with that value.
C2_OptionalFields ==
    (MethodCalled /\ hookCalls[1].method \in {"register_file", "register_and_run"}) =>
        LET m == hookCalls[1].method
            a == hookCalls[1].args
        IN  /\ \A i \in DOMAIN sent[1].body : sent[1].body[i][2] # "null"
            /\ \A k \in OptionalFields(m) :
                  IF ArgValue(a, k) = PyNone \/ ArgValue(a, k) = PyStr("")
                  THEN k \notin Keys(sent[1].body)
                  ELSE <<k, Quoted(ArgValue(a, k).s)>> \in ItemSet(sent[1].body)

C2_Witness ==
    /\ MethodCalled /\ hookCalls[1].method = "register_and_run"
    /\ Lookup(hookCalls[1].args, "file_template") = PyNone
    /\ Lookup(hookCalls[1].args, "run_template") = PyStr("run_tpl")
    /\ "file_template" \notin Keys(sent[1].body)
    /\ <<"run_template", "\"run_tpl\"">> \in ItemSet(sent[1].body)

C4_DecodeErrorCarriesText ==
    (pc = "idle" /\ MethodCalled /\ outcome.kind = "badjson") =>
        /\ result.kind = "raise"
        /\ result.exc.type = "AirflowException"
        /\ result.exc.msg[1] = "Failed to decode JSON response from FlightPath Server: "
        /\ \E i \in DOMAIN result.exc.msg : result.exc.msg[i] = outcome.text

PullDone == pc = "idle" /\ caller = "PullDataOperator" /\ MethodCalled

\* The file field of the response to the last request, when the response is
\* a JSON object.
FileField == DictGet(outcome.value, "file")
GotObject == outcome.kind = "json" /\ outcome.value.t = "dict"

\* Canonical base64 texts and the bytes they encode ("" encodes no bytes,
\* "QQ==" encodes "A", "QUI=" encodes "AB", "QUJD" encodes "ABC").
ValidBase64 == {"", "QQ==", "QUI=", "QUJD"}
EncodedBytes(b) ==
    CASE b = "QQ==" -> <<65>>
      [] b = "QUI=" -> <<65, 66>>
      [] b = "QUJD" -> <<65, 66, 67>>
      [] OTHER -> <<>>

PullSaved(b) ==
    /\ hookCalls = <<HookCall("get_file",
                              << <<"project_name", Lookup(kwargs, "project_name")>>,
                                 <<"reference", Lookup(kwargs, "reference")>> >>)>>
    /\ fs[Lookup(kwargs, "output_path").s] = File(EncodedBytes(b))
    /\ fs[OtherPath] = File(<<9>>)
    /\ result = Returned(Lookup(kwargs, "output_path"))

\* C5 as stated: when the get-file response carries a file field holding
\* valid base64, the pull-data wrapper has called get_file once with its
\* project name and reference, output_path holds exactly the decoded bytes,
\* and output_path is returned.
C5_AsStated ==
    (PullDone /\ GotObject /\ FileField.t = "str" /\ FileField.s \in ValidBase64)
        => PullSaved(FileField.s)

\* C5 (amended): the same, when the file field holds non-empty valid base64.
C5_PullWritesDecodedBytes ==
    (PullDone /\ GotObject /\ FileField.t = "str" /\ FileField.s \in ValidBase64 \ {""})
        => PullSaved(FileField.s)

\* A file that existed before is replaced by the decoded bytes.
C5_Witness ==
    /\ PullDone /\ GotObject /\ FileField = PyStr("QUI=")
    /\ ncalls = 1
    /\ fs[OutputPath] = File(<<65, 66>>)
    /\ result = Returned(PyStr(OutputPath))

\* C6: when the get-file response has no file field, executing the pull-data
\* wrapper ends in an error and leaves the filesystem as it was: nothing is
\* created at output_path and a file that is there keeps its content.
C6_MissingFileWritesNothing ==
    [][(pc = "awaiting" /\ caller = "PullDataOperator" /\ pc' = "idle"
        /\ outcome'.kind = "json" /\ outcome'.value.t = "dict"
        /\ ~HasKey(outcome'.value.items, "file"))
       => (result'.kind = "raise" /\ fs' = fs /\ opened' = <<>>)]_vars

C6_Witness ==
    /\ PullDone /\ GotObject /\ ~HasKey(outcome.value.items, "file")
    /\ ncalls = 1
    /\ result.kind = "raise"
    /\ fs[OutputPath] = File(<<1, 2>>)

BadProfile == ~Truthy(conn.host) \/ ~Truthy(conn.password)

ConfigurationErrors ==
    { Exc("AirflowException", <<"FlightPath Server base URL not found in connection.">>),
      Exc("AirflowException", <<"FlightPath Server API key not found in connection (password field).">>) }

\* C7: with a profile whose base URL or API key is missing or empty,
\* constructing the client fails with a configuration error, directly or
\* inside a wrapper's execute: no client instance exists, no hook method is
\* called and no HTTP request is ever sent.
C7_BadProfileFailsAtConstruction ==
    BadProfile =>
        /\ hook = NoHook
        /\ sent = <<>>
        /\ hookCalls = <<>>
        /\ pc = "idle"
        /\ caller # "none" => (result.kind = "raise" /\ result.exc \in ConfigurationErrors)

C7_Witness ==
    /\ conn.host = PyStr("http://localhost:8000") /\ conn.password = PyStr("")
    /\ caller = "PullDataOperator"
    /\ result.kind = "raise"
    /\ fs[OutputPath] = Absent

\* C8: the error the pull-data wrapper raises for a response without file
\* content is the operator's own "No file content received from FlightPath
\* Server." AirflowException, distinct from the errors _call_api raises.
C8_MissingDataError ==
    (PullDone /\ GotObject /\ ~Truthy(FileField)) =>
        /\ result.kind = "raise"
        /\ result.exc = Exc("AirflowException", <<"No file content received from FlightPath Server.">>)

\* C9: no retries: in every call at most one request is handed to the HTTP
\* library, and once the request has failed (network, status or parse) the
\* call has ended with an error and still with that single request.
C9_NoRetries ==
    /\ Len(sent) <= 1
    /\ outcome.kind \in Failure =>
          (pc = "idle" /\ result.kind = "raise" /\ Len(sent) = 1)

C9_Witness ==
    /\ Done /\ caller = "RegisterFileOperator"
    /\ outcome.kind = "network"
    /\ result.kind = "raise"
    /\ Len(sent) = 1

Wrappers == {"RegisterFileOperator", "RegisterAndRunOperator"}
WrapperFields(op) ==
    IF op = "RegisterFileOperator"
    THEN {"project_name", "name", "file_location", "template"}
    ELSE {"project_name", "file_location", "file_name", "csvpaths_group_name",
          "method", "file_template", "run_template"}

\* C10: executing the register-file or register-and-run wrapper calls the
\* corresponding hook method exactly once with every wrapper field under its
\* own name (an optional field left out forwarded as None, method as
\* "collect_paths"); when the hook returns a JSON object the wrapper returns
\* it unchanged, and when the hook raises the wrapper ends with that error.
C10_WrapperForwards ==
    (caller \in Wrappers /\ ~BadProfile) =>
        /\ Len(hookCalls) = 1
        /\ hookCalls[1].method =
              (IF caller = "RegisterFileOperator" THEN "register_file" ELSE "register_and_run")
        /\ Len(hookCalls[1].args) = Cardinality(WrapperFields(caller))
        /\ ItemSet(hookCalls[1].args) = { <<k, ArgValue(kwargs, k)>> : k \in WrapperFields(caller) }
        /\ (pc = "idle" /\ GotObject) => result = Returned(outcome.value)
        /\ (pc = "idle" /\ outcome.kind \in Failure) =>
              (result.kind = "raise" /\ result = CallApiFinish(outcome))

C10_Witness ==
    /\ Done /\ caller = "RegisterAndRunOperator" /\ MethodCalled
    /\ Lookup(kwargs, "method") = Unset
    /\ Lookup(kwargs, "file_template") = Unset
    /\ Lookup(hookCalls[1].args, "method") = PyStr("collect_paths")
    /\ Lookup(hookCalls[1].args, "file_template") = PyNone
    /\ result = Returned(PyDict(<< <<"register_reference", PyStr("reg_ref_789")>>,
                                   <<"run_reference", PyStr("run_ref_456")>> >>))

\* C11: after any sequence of convenience-method calls on one client
\* instance, successful or failing, its base URL, API key and headers are the
\* ones __init__ resolved from the profile, and every request of the instance
\* is built from them: the same access_token, the same base URL, whatever the
\* earlier calls were.
C11_InstanceUnchangedByCalls ==
    hook.alive =>
        /\ hook = constructed
        /\ hook.base_url = conn.host
        /\ hook.api_key = conn.password
        /\ ItemSet(hook.headers) =
              { <<"access_token", conn.password>>,
                <<"Content-Type", PyStr("application/json")>>,
                <<"Accept", PyStr("application/json")>> }
        /\ MethodCalled =>
              /\ sent[1].headers = constructed.headers
              /\ <<"access_token", constructed.api_key>> \in ItemSet(sent[1].headers)
              /\ sent[1].url = constructed.base_url.s \o ExpectedPath(hookCalls[1].method)

\* A third call on the same instance, after earlier calls, that failed.
C11_Witness ==
    /\ Done /\ caller = "hook" /\ ncalls = 3
    /\ outcome.kind = "status"
    /\ hook = constructed
    /\ sent[1].url = "http://localhost:8000/find/find_files"

\* File contents b64decode accepts (canonical base64, base64 with a skipped
\* character, padding only) and contents it rejects (a group left open).
Decodable == {"QQ==", "QUI=", "QUJD", "Q!Q==", "===="}
Undecodable == {"QQ", "QQ="}

PullResponds == pc = "awaiting" /\ caller = "PullDataOperator" /\ pc' = "idle"

\* C12: in every execution of the pull-data wrapper the output file is opened
\* for writing at most once, and only in the step in which get_file (called
\* once, on a constructed client) returned an object whose file field decoded
\* without error; when get_file raises, or the file field does not decode,
\* that error ends the execution and the filesystem is as it was.
C12_WriteOnlyAfterDecode ==
    [][ /\ Len(opened') <= 1
        /\ opened' # <<>> =>
              /\ PullResponds
              /\ hook.alive
              /\ Len(hookCalls) = 1 /\ hookCalls[1].method = "get_file"
              /\ Len(sent) = 1
              /\ outcome'.kind = "json" /\ outcome'.value.t = "dict"
              /\ DictGet(outcome'.value, "file").t = "str"
              /\ DictGet(outcome'.value, "file").s \in Decodable
              /\ opened' = <<Lookup(kwargs, "output_path").s>>
              /\ result' = Returned(Lookup(kwargs, "output_path"))
        /\ (PullResponds /\ outcome'.kind \in Failure) =>
              /\ result'.kind = "raise"
              /\ result' = CallApiFinish(outcome')
              /\ fs' = fs /\ opened' = <<>>
        /\ (PullResponds /\ outcome'.kind = "json" /\ outcome'.value.t = "dict"
            /\ \/ DictGet(outcome'.value, "file").t = "int"
               \/ DictGet(outcome'.value, "file").s \in Undecodable) =>
              /\ result'.kind = "raise"
              /\ result'.exc.type \in {"binascii.Error", "TypeError"}
              /\ fs' = fs /\ opened' = <<>>
      ]_vars

\* A decode failure: the error is raised and the file that was there is kept.
C12_Witness ==
    /\ PullDone /\ GotObject /\ FileField = PyStr("QQ=")
    /\ result.exc.type = "binascii.Error"
    /\ opened = <<>>
    /\ fs[OutputPath] = File(<<1, 2>>)

\* C13: a get-file response whose file field is the empty string is treated
\* by the pull-data wrapper as one whose file field is missing: the execution
\* ends in the same error and the filesystem is as it was, so nothing is
\* saved for a zero-byte remote file.
C13_EmptyFileIsMissing ==
    [][ (PullResponds /\ outcome'.kind = "json" /\ outcome'.value.t = "dict"
         /\ DictGet(outcome'.value, "file") = PyStr("")
         /\ HasKey(outcome'.value.items, "file")) =>
            /\ result'.kind = "raise"
            /\ result' = PullDataFinish(fields, Returned(PyDict(<<>>)), fs).result
            /\ fs' = fs /\ opened' = <<>>
      ]_vars

C13_Witness ==
    /\ PullDone /\ GotObject
    /\ HasKey(outcome.value.items, "file") /\ FileField = PyStr("")
    /\ result.kind = "raise"
    /\ opened = <<>>
    /\ fs[OutputPath] = Absent

====
